---- MODULE Spec2Model ----
(***************************************************************************)
(* Model of acquire.py: the parent process (__main__), the capture worker  *)
(* (capture_cv2 / capture_asi) and the compress worker, which share the    *)
(* flag buf and the arrays z1, t1, z2, t2.                                 *)
(*                                                                         *)
(* Time is an integer clock `now`.  A timestamp t = (time.time()+t0)/2.0   *)
(* is kept doubled (t0 + time.time()), so that the midpoint stays an       *)
(* integer; it is compared with the doubled end time.  A frame is          *)
(* represented by the number of the fill cycle that stored it, and a       *)
(* timestamp carries that number too (field c); 0 is the zero-initialised  *)
(* content of multiprocessing.Array.                                       *)
(***************************************************************************)
EXTENDS Integers, Sequences, FiniteSets, TLC

\* ------------------------------------------------------------------ bounds
\* The clock runs over 0..MaxTime.
MaxTime == 2
\* At most this many stacks are begun.
MaxCycles == 3
\* The smallest and the largest configured nframes.
MinNz == 2
MaxNz == 3
\* At most this many frames are lost by a source that is still alive.
MaxLost == 1
\* The statistics are checked on stacks of up to this many frames ...
MaxDepth == 4
\* ... whose samples of one pixel lie in 0..MaxSample.
MaxSample == 2

VARIABLES
    \* configuration read by __main__
    camera_type, nz, tend,
    \* environment: wall clock, frame source
    now, srcDead,
    \* parent process
    mainpc,
    \* shared memory
    buf, z1, t1, z2, t2,
    \* capture worker
    apc, first, i, t0, tmid, deviceOpen,
    \* compress worker
    rpc, process_buf, t, z, zcopy, nfd, dt, exc,
    \* compress worker: the statistics of one pixel
    zmax, znum, zs1, zs2, zavg, zvar,
    \* bookkeeping of what happened (not read by the program)
    cycle, dirty, nready, nlost,
    prevtake, takecycle, nrec, endOK, statsReached

cfgvars  == <<camera_type, nz, tend>>
envvars  == <<now, srcDead>>
shared   == <<buf, z1, t1, z2, t2>>
acqvars  == <<apc, first, i, t0, tmid, deviceOpen>>
planes   == <<zmax, znum, zs1, zs2, zavg, zvar>>
redvars  == <<rpc, process_buf, t, z, zcopy, planes, nfd, dt, exc>>
acqhist  == <<cycle, dirty, nready, nlost>>
redhist  == <<prevtake, takecycle, nrec, endOK, statsReached>>
vars == <<cfgvars, envvars, mainpc, shared, acqvars, redvars, acqhist, redhist>>

\* ----------------------------------------------------------------- helpers
\* A zero-initialised timestamp cell (multiprocessing.Array(c_double, nz)).
ZeroT == [v |-> 0, c |-> 0]

\* An array of n copies of x.
Filled(n, x) == [k \in 1..n |-> x]

\* The frame array and the timestamp array of slot k (1: z1/t1, 2: z2/t2).
ZOf(k) == IF k = 1 THEN z1 ELSE z2
TOf(k) == IF k = 1 THEN t1 ELSE t2

\* The slot the capture worker writes while `first` has value f.
SlotOf(f) == IF f THEN 1 ELSE 2

\* The value of res returned by device.read(): CV2 may lose a frame, and
\* loses every frame once the source is dead; ASI always returns a frame.
ReadResults == IF camera_type = "CV2"
               THEN (IF srcDead THEN {FALSE}
                     ELSE IF nlost < MaxLost THEN BOOLEAN ELSE {TRUE})
               ELSE {TRUE}

\* AfterIndex with the loop left after its first iteration.
AfterIndex_short(k) == "mark"

\* Where the for loop over range(nz) goes after index k has been handled.
AfterIndex(k) == IF k + 1 < nz THEN "t0" ELSE "mark"

\* ------------------------------------------------------------- statistics
\* The statistics are those of one pixel: z is the sequence of the pixel's
\* samples in the nz frames, in frame order.  A quotient is kept exact, as
\* the pair <<numerator, denominator>>; zvar is the radicand of zstd.

\* np.sum(z, axis=0)
RECURSIVE SumOf(_)
SumOf(s) == IF s = <<>> THEN 0 ELSE Head(s) + SumOf(Tail(s))

\* z*z
Squares(s) == [k \in 1..Len(s) |-> s[k] * s[k]]

\* np.max(z, axis=0): a scan that keeps the largest sample seen.
RECURSIVE MaxFrom(_, _, _)
MaxFrom(s, k, m) ==
    IF k > Len(s) THEN m ELSE MaxFrom(s, k + 1, IF s[k] > m THEN s[k] ELSE m)

MaxOf(s) == MaxFrom(s, 2, s[1])

\* The scan of np.argmax: the position (from 1) of the sample it settles on.
RECURSIVE ArgFrom(_, _, _)
ArgFrom(s, k, best) ==
    IF k > Len(s) THEN best
    ELSE ArgFrom(s, k + 1, IF s[k] > s[best] THEN k ELSE best)

\* ArgMax that settles on the last of several equal maxima.
ArgMax_last(s) ==
    (CHOOSE k \in 1..Len(s) :
        /\ \A j \in 1..Len(s) : s[j] <= s[k]
        /\ \A j \in (k + 1)..Len(s) : s[j] < s[k]) - 1

\* np.argmax(z, axis=0): the 0-based index found by the scan.
ArgMax(s) == ArgFrom(s, 2, 1) - 1

\* q / float(k), k * q and k - q for a quotient q and an integer k.
QDiv(q, k) == <<q[1], q[2] * k>>
QMul(k, q) == <<k * q[1], q[2]>>
QSub(k, q) == <<k * q[2] - q[1], q[2]>>

\* The planes are left as they are before the first stack is reduced
\* (Python has not bound the names yet; they are shown as zero).
DropPlanes ==
    /\ zmax' = 0 /\ znum' = 0 /\ zs1' = 0 /\ zs2' = 0
    /\ zavg' = <<0, 1>> /\ zvar' = <<0, 1>>

\* ------------------------------------------------------------------- Init
Init ==
    /\ camera_type \in {"CV2", "ASI"}
    /\ nz \in MinNz..MaxNz
    /\ tend \in 1..(MaxTime - 1)
    /\ now = 0
    /\ srcDead = FALSE
    /\ mainpc = "start_capture"
    /\ buf = 0
    /\ z1 = Filled(nz, 0) /\ z2 = Filled(nz, 0)
    /\ t1 = Filled(nz, ZeroT) /\ t2 = Filled(nz, ZeroT)
    /\ apc = "idle" /\ first = TRUE /\ i = 0 /\ t0 = 0 /\ tmid = 0
    /\ deviceOpen = FALSE
    /\ rpc = "idle" /\ process_buf = 1 /\ t = 0 /\ z = <<>> /\ zcopy = <<>>
    /\ nfd = ZeroT /\ dt = <<>> /\ exc = "none"
    /\ zmax = 0 /\ znum = 0 /\ zs1 = 0 /\ zs2 = 0
    /\ zavg = <<0, 1>> /\ zvar = <<0, 1>>
    /\ cycle = 0 /\ dirty = FALSE /\ nready = 0 /\ nlost = 0
    /\ prevtake = 0 /\ takecycle = 0
    /\ nrec = 0 /\ endOK = TRUE /\ statsReached = FALSE

\* ------------------------------------------------------------ environment
\* The wall clock advances.
Tick ==
    /\ now < MaxTime
    /\ now' = now + 1
    /\ UNCHANGED <<cfgvars, srcDead, mainpc, shared, acqvars, redvars,
                   acqhist, redhist>>

\* The frame source stops producing frames for good.
SourceFail ==
    /\ camera_type = "CV2"
    /\ deviceOpen
    /\ ~srcDead
    /\ srcDead' = TRUE
    /\ UNCHANGED <<cfgvars, now, mainpc, shared, acqvars, redvars,
                   acqhist, redhist>>

\* ----------------------------------------------------------------- parent
\* pcapture.start()
M_start_capture ==
    /\ mainpc = "start_capture"
    /\ mainpc' = "start_compress"
    /\ apc' = "open"
    /\ UNCHANGED <<cfgvars, envvars, shared, first, i, t0, tmid, deviceOpen,
                   redvars, acqhist, redhist>>

\* pcompress.start()
M_start_compress ==
    /\ mainpc = "start_compress"
    /\ mainpc' = "join_capture"
    /\ rpc' = "wait"
    /\ UNCHANGED <<cfgvars, envvars, shared, acqvars, process_buf, t, z, zcopy,
                   planes, nfd, dt, exc, acqhist, redhist>>

\* pcapture.join()
M_join_capture ==
    /\ mainpc = "join_capture"
    /\ apc = "done"
    /\ mainpc' = "join_compress"
    /\ UNCHANGED <<cfgvars, envvars, shared, acqvars, redvars, acqhist,
                   redhist>>

\* pcompress.join(): returns when the worker has returned or died.
M_join_compress ==
    /\ mainpc = "join_compress"
    /\ rpc \in {"done", "crashed"}
    /\ mainpc' = "end"
    /\ UNCHANGED <<cfgvars, envvars, shared, acqvars, redvars, acqhist,
                   redhist>>

\* KeyboardInterrupt reaches the parent inside the try block, while it is
\* blocked in pcapture.join() or pcompress.join(), and the handler runs
\* pcapture.terminate(): SIGTERM ends the capture worker where it stands
\* (no handler, no finally: nothing of capture_cv2 / capture_asi runs any
\* more, and its locals are gone with the process); a worker that has
\* already returned is left as it is.
Interrupt ==
    /\ mainpc \in {"join_capture", "join_compress"}
    /\ mainpc' = "terminate_compress"
    /\ IF apc = "done"
       THEN UNCHANGED <<apc, first, i, t0, tmid>>
       ELSE /\ apc' = "killed"
            /\ first' = TRUE /\ i' = 0 /\ t0' = 0 /\ tmid' = 0
    /\ UNCHANGED <<cfgvars, envvars, shared, deviceOpen, redvars, acqhist,
                   redhist>>

\* pcompress.terminate()
M_terminate_compress ==
    /\ mainpc = "terminate_compress"
    /\ mainpc' = "end"
    /\ IF rpc \in {"done", "crashed"}
       THEN UNCHANGED <<rpc, process_buf, t, z, zcopy, planes, nfd, dt>>
       ELSE /\ rpc' = "killed"
            /\ process_buf' = 1 /\ t' = 0 /\ z' = <<>> /\ zcopy' = <<>>
            /\ DropPlanes
            /\ nfd' = ZeroT /\ dt' = <<>>
    /\ UNCHANGED <<cfgvars, envvars, shared, acqvars, exc, acqhist, redhist>>

Main == M_start_capture \/ M_start_compress \/ M_join_capture
           \/ M_join_compress \/ M_terminate_compress

\* --------------------------------------------------------- capture worker
\* first = True; open and configure the device.
A_open ==
    /\ apc = "open"
    /\ first' = TRUE
    /\ deviceOpen' = TRUE
    /\ apc' = "check"
    /\ UNCHANGED <<cfgvars, envvars, mainpc, shared, i, t0, tmid, redvars,
                   acqhist, redhist>>

\* A_check_go without the end-time test.
A_check_go_untimed ==
    /\ apc = "check"
    /\ cycle < MaxCycles
    /\ i' = 0
    /\ apc' = "t0"
    /\ cycle' = cycle + 1
    /\ dirty' = FALSE
    /\ UNCHANGED <<cfgvars, envvars, mainpc, shared, first, t0, tmid,
                   deviceOpen, redvars, nready, nlost, redhist>>

\* while float(time.time()) < tend: begin a stack (for i in range(nz)).
A_check_go ==
    /\ apc = "check"
    /\ now < tend
    /\ cycle < MaxCycles
    /\ i' = 0
    /\ apc' = "t0"
    /\ cycle' = cycle + 1
    /\ dirty' = FALSE
    /\ UNCHANGED <<cfgvars, envvars, mainpc, shared, first, t0, tmid,
                   deviceOpen, redvars, nready, nlost, redhist>>

\* while float(time.time()) < tend: the test fails, leave the loop.
A_check_end ==
    /\ apc = "check"
    /\ ~(now < tend)
    /\ apc' = "release"
    /\ UNCHANGED <<cfgvars, envvars, mainpc, shared, first, i, t0, tmid,
                   deviceOpen, redvars, acqhist, redhist>>

\* t0 = float(time.time())
A_t0 ==
    /\ apc = "t0"
    /\ t0' = now
    /\ apc' = "read"
    /\ UNCHANGED <<cfgvars, envvars, mainpc, shared, first, i, tmid,
                   deviceOpen, redvars, acqhist, redhist>>

\* res, frame = device.read(); t = (float(time.time())+t0)/2.0;
\* if res is True: go on to store, else fall through to the next index.
\* (t0, and t of a lost frame, are not read again before they are
\* reassigned: their values are dropped to 0.)
A_read ==
    /\ apc = "read"
    /\ \E res \in ReadResults :
        /\ t0' = 0
        /\ IF res
           THEN /\ tmid' = t0 + now
                /\ apc' = "store_z"
                /\ i' = i
           ELSE /\ tmid' = 0
                /\ apc' = AfterIndex(i)
                /\ i' = i + 1
        /\ nlost' = IF ~srcDead /\ ~res THEN nlost + 1 ELSE nlost
    /\ UNCHANGED <<cfgvars, envvars, mainpc, shared, first, deviceOpen,
                   redvars, cycle, dirty, nready, redhist>>

\* z1[i] = z  /  z2[i] = z
A_store_z ==
    /\ apc = "store_z"
    /\ IF first
       THEN /\ z1' = [z1 EXCEPT ![i + 1] = cycle]
            /\ z2' = z2
       ELSE /\ z2' = [z2 EXCEPT ![i + 1] = cycle]
            /\ z1' = z1
    /\ dirty' = TRUE
    /\ apc' = "store_t"
    /\ UNCHANGED <<cfgvars, envvars, mainpc, buf, t1, t2, first, i, t0, tmid,
                   deviceOpen, redvars, cycle, nready, nlost, redhist>>

\* t1[i] = t  /  t2[i] = t ; next index (t is not read again before it is
\* reassigned: its value is dropped to 0)
A_store_t ==
    /\ apc = "store_t"
    /\ IF first
       THEN /\ t1' = [t1 EXCEPT ![i + 1] = [v |-> tmid, c |-> cycle]]
            /\ t2' = t2
       ELSE /\ t2' = [t2 EXCEPT ![i + 1] = [v |-> tmid, c |-> cycle]]
            /\ t1' = t1
    /\ tmid' = 0
    /\ apc' = AfterIndex(i)
    /\ i' = i + 1
    /\ UNCHANGED <<cfgvars, envvars, mainpc, buf, z1, z2, first, t0,
                   deviceOpen, redvars, acqhist, redhist>>

\* A_mark without the swap of first.
A_mark_noswap ==
    /\ apc = "mark"
    /\ buf' = SlotOf(first)
    /\ nready' = nready + 1
    /\ apc' = "check"
    /\ UNCHANGED <<cfgvars, envvars, mainpc, z1, t1, z2, t2, first, i, t0,
                   tmid, deviceOpen, redvars, cycle, dirty, nlost, redhist>>

\* buf.value = 1 / buf.value = 2 ; first = not first
A_mark ==
    /\ apc = "mark"
    /\ buf' = SlotOf(first)
    /\ first' = ~first
    /\ nready' = nready + 1
    /\ apc' = "check"
    /\ UNCHANGED <<cfgvars, envvars, mainpc, z1, t1, z2, t2, i, t0, tmid,
                   deviceOpen, redvars, cycle, dirty, nlost, redhist>>

\* device.release() / camera.stop_video_capture()
A_release ==
    /\ apc = "release"
    /\ deviceOpen' = FALSE
    /\ apc' = "done"
    /\ UNCHANGED <<cfgvars, envvars, mainpc, shared, first, i, t0, tmid,
                   redvars, acqhist, redhist>>

Acquirer == A_open \/ A_check_go \/ A_check_end \/ A_t0 \/ A_read
               \/ A_store_z \/ A_store_t \/ A_mark \/ A_release

\* -------------------------------------------------------- compress worker
\* dt = t - t[0]: the offset of every timestamp from the first one (each
\* offset keeps the cycle number of the cell it was computed from).
Offsets(tt) == [k \in 1..Len(tt) |-> [v |-> tt[k].v - tt[1].v, c |-> tt[k].c]]

\* while buf.value != process_buf: ...
R_poll ==
    /\ rpc = "wait"
    /\ rpc' = IF buf # process_buf THEN "sleep" ELSE "if1"
    /\ UNCHANGED <<cfgvars, envvars, mainpc, shared, acqvars, process_buf, t,
                   z, zcopy, planes, nfd, dt, exc, acqhist, redhist>>

\* time.sleep(1.0)
R_sleep ==
    /\ rpc = "sleep"
    /\ rpc' = "wait"
    /\ UNCHANGED <<cfgvars, envvars, mainpc, shared, acqvars, process_buf, t,
                   z, zcopy, planes, nfd, dt, exc, acqhist, redhist>>

\* The branch for slot k is entered: t = t1 / t = t2 binds the alias and
\* the astype copy of the slot's frames begins.
Take(k) ==
    /\ t' = k
    /\ zcopy' = <<>>
    /\ rpc' = "copy"
    /\ prevtake' = t
    /\ takecycle' = nready
    /\ endOK' = TRUE
    /\ UNCHANGED <<process_buf, z, planes, nfd, dt, exc, nrec, statsReached>>

\* if buf.value == 1:
R_if1 ==
    /\ rpc = "if1"
    /\ IF buf = 1
       THEN Take(1)
       ELSE /\ rpc' = "if2"
            /\ UNCHANGED <<process_buf, t, z, zcopy, planes, nfd, dt, exc,
                           redhist>>
    /\ UNCHANGED <<cfgvars, envvars, mainpc, shared, acqvars, acqhist>>

\* R_if2 written as a plain else: slot 2 is taken whatever the flag says.
R_if2_else ==
    /\ rpc = "if2"
    /\ Take(2)
    /\ UNCHANGED <<cfgvars, envvars, mainpc, shared, acqvars, acqhist>>

\* elif buf.value == 2: (with neither branch taken, t and z keep what the
\* previous pass bound, or stay unbound)
R_if2 ==
    /\ rpc = "if2"
    /\ IF buf = 2
       THEN Take(2)
       ELSE /\ rpc' = "stats"
            /\ UNCHANGED <<process_buf, t, z, zcopy, planes, nfd, dt, exc,
                           redhist>>
    /\ UNCHANGED <<cfgvars, envvars, mainpc, shared, acqvars, acqhist>>

\* R_copy with process_buf set to the slot just taken, not to the other.
R_copy_same ==
    /\ rpc = "copy"
    /\ LET new == Append(zcopy, ZOf(t)[Len(zcopy) + 1])
       IN IF Len(new) < nz
          THEN /\ zcopy' = new
               /\ UNCHANGED <<rpc, z, process_buf>>
          ELSE /\ zcopy' = <<>>
               /\ z' = new
               /\ process_buf' = t
               /\ rpc' = "stats"
    /\ UNCHANGED <<cfgvars, envvars, mainpc, shared, acqvars, t, planes, nfd,
                   dt, exc, acqhist, redhist>>

\* z = z1.astype('float32') / z2.astype('float32'): the frames are copied
\* one after the other; with the last one z is bound and process_buf set.
R_copy ==
    /\ rpc = "copy"
    /\ LET new == Append(zcopy, ZOf(t)[Len(zcopy) + 1])
       IN IF Len(new) < nz
          THEN /\ zcopy' = new
               /\ UNCHANGED <<rpc, z, process_buf>>
          ELSE /\ zcopy' = <<>>
               /\ z' = new
               /\ process_buf' = 3 - t
               /\ rpc' = "stats"
    /\ UNCHANGED <<cfgvars, envvars, mainpc, shared, acqvars, t, planes, nfd,
                   dt, exc, acqhist, redhist>>

\* R_stats with the sums taken over all nz samples, the maximum included.
R_stats_untrimmed ==
    /\ rpc = "stats"
    /\ IF z = <<>>
       THEN /\ rpc' = "crashed"
            /\ exc' = "NameError"
            /\ UNCHANGED <<planes, statsReached>>
       ELSE /\ zmax' = MaxOf(z)
            /\ znum' = ArgMax(z)
            /\ zs1' = SumOf(z)
            /\ zs2' = SumOf(Squares(z))
            /\ zavg' = QDiv(<<zs1', 1>>, nz - 1)
            /\ zvar' = QDiv(QSub(zs2', QMul(zs1', zavg')), nz - 2)
            /\ rpc' = "fmt"
            /\ statsReached' = TRUE
            /\ UNCHANGED exc
    /\ UNCHANGED <<cfgvars, envvars, mainpc, shared, acqvars, process_buf, t,
                   z, zcopy, nfd, dt, acqhist, prevtake, takecycle, nrec,
                   endOK>>

\* zmax .. zstd on the local copy z, for one pixel (NameError when z was
\* never bound).  The flips move pixels, not samples, and the casts to
\* float32 leave the integers exact.
R_stats ==
    /\ rpc = "stats"
    /\ IF z = <<>>
       THEN /\ rpc' = "crashed"
            /\ exc' = "NameError"
            /\ UNCHANGED <<planes, statsReached>>
       ELSE /\ zmax' = MaxOf(z)
            /\ znum' = ArgMax(z)
            /\ zs1' = SumOf(z) - zmax'
            /\ zs2' = SumOf(Squares(z)) - zmax' * zmax'
            /\ zavg' = QDiv(<<zs1', 1>>, nz - 1)
            /\ zvar' = QDiv(QSub(zs2', QMul(zs1', zavg')), nz - 2)
            /\ rpc' = "fmt"
            /\ statsReached' = TRUE
            /\ UNCHANGED exc
    /\ UNCHANGED <<cfgvars, envvars, mainpc, shared, acqvars, process_buf, t,
                   z, zcopy, nfd, dt, acqhist, prevtake, takecycle, nrec,
                   endOK>>

\* nfd = ... t[0] ...; t0 = Time(nfd)
R_fmt ==
    /\ rpc = "fmt"
    /\ nfd' = TOf(t)[1]
    /\ rpc' = "dt"
    /\ UNCHANGED <<cfgvars, envvars, mainpc, shared, acqvars, process_buf, t,
                   z, zcopy, planes, dt, exc, acqhist, redhist>>

\* dt = t-t[0]
R_dt ==
    /\ rpc = "dt"
    /\ dt' = Offsets(TOf(t))
    /\ rpc' = "write"
    /\ UNCHANGED <<cfgvars, envvars, mainpc, shared, acqvars, process_buf, t,
                   z, zcopy, planes, nfd, exc, acqhist, redhist>>

\* header, hdu.writeto(...): the sink accepts the record, or raises and the
\* exception leaves compress.  (nfd, dt and the planes are not read again
\* before they are reassigned: their values are dropped.)
R_write ==
    /\ rpc = "write"
    /\ nfd' = ZeroT
    /\ dt' = <<>>
    /\ DropPlanes
    /\ \E ok \in BOOLEAN :
        IF ok
        THEN /\ nrec' = nrec + 1
             /\ rpc' = "endtest"
             /\ UNCHANGED exc
        ELSE /\ rpc' = "crashed"
             /\ exc' = "OSError"
             /\ UNCHANGED nrec
    /\ UNCHANGED <<cfgvars, envvars, mainpc, shared, acqvars, process_buf, t,
                   z, zcopy, acqhist, prevtake, takecycle, endOK,
                   statsReached>>

\* R_endtest that also hands the slot back by clearing the flag.
R_endtest_clears ==
    /\ rpc = "endtest"
    /\ buf' = 0
    /\ LET last == TOf(t)[nz]
       IN /\ endOK' = (last.c <= takecycle)
          /\ rpc' = IF last.v > 2 * tend THEN "exit" ELSE "wait"
    /\ UNCHANGED <<cfgvars, envvars, mainpc, z1, t1, z2, t2, acqvars,
                   process_buf, t, z, zcopy, planes, nfd, dt, exc, acqhist,
                   prevtake, takecycle, nrec, statsReached>>

\* if t[-1] > tend: break
R_endtest ==
    /\ rpc = "endtest"
    /\ LET last == TOf(t)[nz]
       IN /\ endOK' = (last.c <= takecycle)
          /\ rpc' = IF last.v > 2 * tend THEN "exit" ELSE "wait"
    /\ UNCHANGED <<cfgvars, envvars, mainpc, shared, acqvars, process_buf, t,
                   z, zcopy, planes, nfd, dt, exc, acqhist, prevtake, takecycle,
                   nrec, statsReached>>

\* logger.info("Exiting compress")
R_exit ==
    /\ rpc = "exit"
    /\ rpc' = "done"
    /\ UNCHANGED <<cfgvars, envvars, mainpc, shared, acqvars, process_buf, t,
                   z, zcopy, planes, nfd, dt, exc, acqhist, redhist>>

Reducer == R_poll \/ R_sleep \/ R_if1 \/ R_if2 \/ R_copy \/ R_stats
              \/ R_fmt \/ R_dt \/ R_write \/ R_exit \/ R_endtest

\* ---------------------------------------------------------- specification
Next == Tick \/ SourceFail \/ Interrupt \/ Main \/ Acquirer \/ Reducer

Spec == Init /\ [][Next]_vars

\* The clock runs, and the operating system schedules each process that
\* can take a step.
FairSpec == Spec /\ WF_vars(Tick) /\ WF_vars(Main) /\ WF_vars(Acquirer)
                 /\ WF_vars(Reducer)

\* ------------------------------------------- the statistics on their own
\* The stack of the end-to-end scenario: one pixel over five frames.
ScenarioStack == <<10, 20, 15, 5, 255>>

\* The stacks the statistics are computed on: every sequence of MinNz up to
\* MaxDepth samples in 0..MaxSample, and the scenario's.
Stacks ==
    UNION {[1..n -> 0..MaxSample] : n \in MinNz..MaxDepth} \cup {ScenarioStack}

\* The compress worker has copied the first stack (slot 1) into z and is
\* about to compute the statistics; the capture worker waits at its while
\* test.
StatInit ==
    /\ camera_type = "ASI"
    /\ z \in Stacks
    /\ nz = Len(z)
    /\ tend = 1
    /\ now = 0
    /\ srcDead = FALSE
    /\ mainpc = "join_capture"
    /\ buf = 1
    /\ z1 = z /\ z2 = Filled(nz, 0)
    /\ t1 = Filled(nz, [v |-> 0, c |-> 1]) /\ t2 = Filled(nz, ZeroT)
    /\ apc = "check" /\ first = FALSE /\ i = nz /\ t0 = 0 /\ tmid = 0
    /\ deviceOpen = TRUE
    /\ rpc = "stats" /\ process_buf = 2 /\ t = 1 /\ zcopy = <<>>
    /\ nfd = ZeroT /\ dt = <<>> /\ exc = "none"
    /\ zmax = 0 /\ znum = 0 /\ zs1 = 0 /\ zs2 = 0
    /\ zavg = <<0, 1>> /\ zvar = <<0, 1>>
    /\ cycle = 1 /\ dirty = FALSE /\ nready = 1 /\ nlost = 0
    /\ prevtake = 0 /\ takecycle = 1
    /\ nrec = 0 /\ endOK = TRUE /\ statsReached = FALSE

StatNext == R_stats

StatSpec == StatInit /\ [][StatNext]_vars

\* ------------------------------------------------------------------ claims
\* The capture worker has stored at least one frame of the current cycle
\* into slot k and has not yet set the flag for it.
AcquirerFilling(k) ==
    /\ apc \in {"t0", "read", "store_z", "store_t", "mark"}
    /\ SlotOf(first) = k
    /\ dirty

\* The compress worker is part-way through the astype copy of slot k, or
\* between its first (t[0]) and its last (t[-1]) read of slot k's
\* timestamps through the alias t.
ReducerReading(k) ==
    /\ t = k
    /\ \/ rpc = "copy" /\ zcopy # <<>>
       \/ rpc \in {"dt", "write", "endtest"}

\* C1: in no reachable state is the capture worker in the middle of
\* filling slot k while the compress worker is reading slot k's frames or
\* timestamps.
C1_NoOverlap ==
    \A k \in 1..2 : ~(AcquirerFilling(k) /\ ReducerReading(k))

\* C2: every stack marked ready is taken by the compress worker before the
\* flag is overwritten by the next mark, so none is skipped: once two or
\* more stacks have been marked, the most recent take is of the latest
\* stack or of the one just before it.
C2_NoSkip ==
    nready >= 2 => takecycle >= nready - 1

AcquirerFinished ==
    \/ apc \in {"release", "done"}
    \/ apc = "check" /\ ~(now < tend)

C5_ReadySlotComplete ==
    \A k \in 1..2 :
        buf = k => \A j \in 1..nz : /\ ZOf(k)[j] = nready
                                    /\ TOf(k)[j].c = nready

\* A timestamp cell that was in the taken slot when it was taken (a later
\* fill of the slot stores a larger cycle number).
FromTake(cell) == cell.c <= takecycle

\* C6: the start time, the offsets (and so the exposure) written into the
\* record, and the value of t[-1] used in the end-of-run test, are the
\* timestamps the slot held when the compress worker took it.
C6_SameFill ==
    /\ rpc = "write" => (FromTake(nfd) /\ \A j \in 1..nz : FromTake(dt[j]))
    /\ endOK

\* C7: the slot the compress worker takes differs from the slot it took
\* the time before.
C7_Alternates ==
    prevtake # 0 => t # prevtake

\* C8: a failure of the sink (hdu.writeto raises) does not end the compress
\* worker.
C8_SinkFailureSurvived ==
    exc = "OSError" => rpc # "crashed"

\* C9: with nframes below 3 no worker is started and the statistics are
\* never computed.
C9_DepthRejected ==
    nz < 3 => (apc = "idle" /\ rpc = "idle" /\ ~statsReached)

\* C10: once the source is dead and a whole stack of reads has produced no
\* frame, the capture worker does not mark that stack ready.
C10_DeadSourceNotMarked ==
    [][(srcDead /\ apc = "mark" /\ ~dirty) => buf' = buf]_vars

\* C11: after an external stop request both workers are gone and the
\* capture worker has released the device before it went.
C11_HandleReleased ==
    mainpc = "end" => (/\ apc \in {"done", "killed"}
                       /\ rpc \in {"done", "crashed", "killed"}
                       /\ ~deviceOpen)

\* The capture worker is inside a stack: between the start of the for loop
\* and the assignment of the flag.
InStack == apc \in {"t0", "read", "store_z", "store_t", "mark"}

\* C12: the flag is assigned slot k's value only by the capture worker,
\* standing after the for loop with all nz iterations on slot k run.
C12_MarkAfterFullFill ==
    [][buf' # buf => (apc = "mark" /\ i = nz /\ buf' = SlotOf(first))]_vars

\* Both slots have been filled and marked.
C12_Witness == nready >= 2 /\ buf = 2 /\ apc = "check"

\* C13: no step of the compress worker changes the flag; a step that
\* changes it is the capture worker's assignment of 1 or 2, so that once
\* the flag has left 0 it is 1 or 2.
C13_OnlyAcquirerWritesFlag ==
    [][/\ (redvars' # redvars => buf' = buf)
       /\ (buf' # buf => (apc = "mark" /\ apc' = "check" /\ buf' \in 1..2))
      ]_vars

\* The compress worker has waited, taken, computed, emitted and returned.
C13_Witness == rpc = "done" /\ nrec >= 1 /\ buf \in 1..2

\* C16: the n-th value written to the flag is 1 for odd n and 2 for even
\* n, and once the flag is written the capture worker, while inside a
\* stack, fills the slot the flag does not name.
C16_AcquirerAlternates ==
    /\ nready >= 1 => buf = 2 - (nready % 2)
    /\ (buf # 0 /\ InStack) => SlotOf(first) # buf

\* The capture worker stores into slot 1 for the second time while the
\* flag names slot 2.
C16_Witness == nready = 2 /\ buf = 2 /\ apc = "store_t" /\ first

\* C17: the capture worker leaves its loop only at the test between
\* stacks, with the clock not before tend and every stack it began
\* marked; and at such a test with the clock not before tend it leaves.
C17_EndTestBetweenStacks ==
    [][/\ (apc # "release" /\ apc' = "release")
            => (apc = "check" /\ ~(now < tend) /\ nready = cycle)
       /\ (apc = "check" /\ ~(now < tend) /\ apc' # apc)
            => apc' \in {"release", "killed"}
       /\ (InStack /\ apc' # apc) => (InStack' \/ apc' \in {"check", "killed"})
      ]_vars

\* The capture worker has returned after two or more stacks.
C17_Witness == apc = "done" /\ nready >= 2

\* C18: the step in which the compress worker binds the alias and starts
\* the copy of slot k is one in which the flag it reads is k (so not 0),
\* and a record is emitted only with a slot taken that has been marked.
C18_TakeOnReady ==
    [][/\ (rpc # "copy" /\ rpc' = "copy") => (buf \in 1..2 /\ t' = buf)
       /\ nrec' # nrec => (t # 0 /\ nready >= t)
      ]_vars

\* A record of slot 2 has been emitted.
C18_Witness == rpc = "endtest" /\ t = 2 /\ nrec >= 1

\* C20: every take is of a stack marked later than the one taken before,
\* and the records emitted never outnumber the stacks marked.
C20_NoDoubleConsume ==
    [][/\ (rpc # "copy" /\ rpc' = "copy") => takecycle' > takecycle
       /\ nrec' <= nready'
      ]_vars

\* Two records have been emitted.
C20_Witness == nrec >= 2 /\ takecycle >= 2

\* The statistics of z have just been computed.
Reduced == rpc = "fmt"

\* C14: for a stack of depth N >= 3, the max plane holds the largest of the
\* N samples, and the argmax plane the smallest 0-based frame index that
\* holds it (the first occurrence wins a tie).
C14_MaxAndArgMax ==
    (Reduced /\ nz >= 3) =>
        /\ \E k \in 1..nz : z[k] = zmax
        /\ \A k \in 1..nz : z[k] <= zmax
        /\ znum \in 0..(nz - 1)
        /\ z[znum + 1] = zmax
        /\ \A k \in 1..znum : z[k] < zmax

\* C14 witness: a stack of depth >= 3 whose maximum occurs twice has been
\* reduced, and argmax names the earlier frame.
C14_Witness ==
    /\ Reduced /\ nz >= 3
    /\ \E j \in 1..nz : \E k \in (j + 1)..nz :
          z[j] = zmax /\ z[k] = zmax /\ znum = j - 1 /\ j > 1

\* The samples of s with the one at position k taken out.
Without(s, k) == [j \in 1..(Len(s) - 1) |-> IF j < k THEN s[j] ELSE s[j + 1]]

\* z with one occurrence of its largest sample removed.
Rest ==
    Without(z, CHOOSE k \in 1..Len(z) : \A j \in 1..Len(z) : z[j] <= z[k])

\* The mean of s, and its variance computed from the deviations from the
\* mean, sum((x - mean)^2) / (n - 1), as quotients: with S the sum of s,
\* x - mean = (n*x - S) / n.
DirectMean(s) == <<SumOf(s), Len(s)>>
DirectVar(s) ==
    <<SumOf([k \in 1..Len(s) |->
                (Len(s) * s[k] - SumOf(s)) * (Len(s) * s[k] - SumOf(s))]),
      Len(s) * Len(s) * (Len(s) - 1)>>

\* Two quotients with non-zero denominators are the same number.
SameQ(p, q) == p[2] # 0 /\ q[2] # 0 /\ p[1] * q[2] = q[1] * p[2]

\* C15: for a stack of depth N >= 3, with distinct or tied maxima, the sums
\* with the maximum subtracted give a mean sum1/(N-1) and a variance
\* (sum2 - sum1*mean)/(N-2) equal to the mean and the variance computed
\* directly over the N-1 samples left when one occurrence of the maximum
\* is removed; the stack [10,20,15,5,255] gives max 255, argmax 4 and the
\* mean and variance of [10,20,15,5].
C15_TrimmedStatistics ==
    (Reduced /\ nz >= 3) =>
        /\ zs1 = SumOf(Rest)
        /\ zs2 = SumOf(Squares(Rest))
        /\ SameQ(zavg, DirectMean(Rest))
        /\ SameQ(zvar, DirectVar(Rest))
        /\ z = ScenarioStack =>
              /\ zmax = 255 /\ znum = 4
              /\ SameQ(zavg, DirectMean(<<10, 20, 15, 5>>))
              /\ SameQ(zvar, DirectVar(<<10, 20, 15, 5>>))
              /\ SameQ(zavg, <<25, 2>>)
              /\ SameQ(zvar, <<125, 3>>)

\* C15 witness: the scenario's stack has been reduced.
C15_Witness == Reduced /\ z = ScenarioStack /\ zs1 = 50

====
